---------------------------- MODULE Spec2Model ----------------------------
(***************************************************************************)
(* A model of SecurityValidator (src/security.py): the command allowlist   *)
(* and the per-command validators of the autonomous agent harness.         *)
(*                                                                         *)
(* Text.  A Python string is a sequence of symbols.  Every character the   *)
(* code looks at on its own (whitespace, quotes, the backslash, ; | & - =  *)
(* / . + and the letters of a chmod mode) is one symbol.  A run of letters *)
(* the code only ever compares as a whole ("pkill", "node", "init.sh") is  *)
(* one symbol too; no sequence of two or more symbols of the model spells  *)
(* one of those names, so equality of sequences is equality of text.       *)
(***************************************************************************)
EXTENDS Integers, Sequences, FiniteSets, TLC

VARIABLES
    command_string,     \* the string a caller validates
    pc,                 \* the caller: "call" before the call, "done" after
    result,             \* what the call produced
    allowed_commands,   \* the class attribute SecurityValidator.ALLOWED_COMMANDS
    commands_needing_extra_validation,
                        \* SecurityValidator.COMMANDS_NEEDING_EXTRA_VALIDATION
    history,            \* the calls the caller has completed, in order
    threads,            \* the calls of concurrent callers, each one in steps
    agent,              \* a call of run_autonomous_agent
    backlog,            \* a call of run_autonomous_backlog
    workflow,           \* a call of run_multi_agent_workflow_for_pbi
    mcp                 \* an MCPManager and its MCPServer objects

validator_vars ==
    <<command_string, pc, result, allowed_commands,
      commands_needing_extra_validation, history, threads>>

harness_vars == <<agent, backlog, workflow, mcp>>

vars == <<validator_vars, harness_vars>>

\* a function or object of the harness nobody has called or made
NotRunning == [pc |-> "none"]

(***************************************************************************)
(* Bounds of the model.                                                    *)
(***************************************************************************)
MaxPhrases == 4

\* the calls one caller makes one after another
MaxCalls == 3

\* the phrases of a string of a caller that calls more than once, or at the
\* same time as others
MaxCallerPhrases == 2

\* the callers that call at the same time
MaxThreads == 2

\* the largest max_iterations run_autonomous_agent is given
MaxIterations == 2

\* the sessions a run of run_autonomous_agent is followed for
MaxSessions == 3

\* the largest max_pbis run_autonomous_backlog is given
MaxPbis == 2

\* the backlog queries a run of run_autonomous_backlog is followed for
MaxQueries == 4

\* the operations an MCPManager is followed for
MaxOps == 5

(***************************************************************************)
(* Character classes.                                                      *)
(***************************************************************************)
\* shlex.whitespace, and what \s and str.strip() remove among the symbols used
Whitespace == {" ", "\n"}

Quotes == {"'", "\""}

Escape == "\\"

\* security.py:17-61: the set the class attribute is bound to
ALLOWED_COMMANDS ==
    { <<"ls">>, <<"cat">>, <<"head">>, <<"tail">>, <<"wc">>, <<"grep">>,
      <<"find">>, <<"tree">>, <<"cp">>, <<"mv">>, <<"mkdir">>, <<"chmod">>,
      <<"touch">>, <<"pwd">>, <<"cd">>, <<"npm">>, <<"node">>, <<"npx">>,
      <<"python">>, <<"python3">>, <<"pip">>, <<"pip3">>, <<"git">>,
      <<"ps">>, <<"lsof">>, <<"sleep">>, <<"pkill">>, <<"echo">>,
      <<"which">>, <<"curl">>, <<"wget">>, <<"init.sh">>, <<"bash">>,
      <<"sh">> }

\* security.py:64: the set the class attribute is bound to
COMMANDS_NEEDING_EXTRA_VALIDATION ==
    { <<"pkill">>, <<"chmod">>, <<"init.sh">>, <<"bash">>, <<"sh">>,
      <<"curl">>, <<"wget">> }

\* security.py:138
ShellOperators == { <<"|">>, <<"|", "|">>, <<"&", "&">>, <<"&">> }

\* security.py:143-144
ShellKeywords ==
    { <<"if">>, <<"then">>, <<"else">>, <<"elif">>, <<"fi">>, <<"for">>,
      <<"while">>, <<"until">>, <<"do">>, <<"done">>, <<"case">>,
      <<"esac">>, <<"in">>, <<"!">>, <<"{">>, <<"}">> }

\* security.py:164-174
allowed_process_names ==
    { <<"node">>, <<"npm">>, <<"npx">>, <<"vite">>, <<"next">>,
      <<"webpack">>, <<"parcel">>, <<"python">>, <<"python3">> }

(***************************************************************************)
(* The values a call produces: a returned (is_allowed, reason) pair, or an *)
(* exception that leaves the call.                                         *)
(***************************************************************************)
Allow == [kind |-> "return", allowed |-> TRUE, reason |-> <<>>]

Deny(reason) == [kind |-> "return", allowed |-> FALSE, reason |-> reason]

Raise(exc) == [kind |-> "raise", exc |-> exc]

(***************************************************************************)
(* String helpers of the Python library, as the code uses them.            *)
(***************************************************************************)
\* s[i:], 1-based: the symbols of s from position i on
From(s, i) == IF i > Len(s) THEN <<>> ELSE SubSeq(s, i, Len(s))

\* str.startswith
StartsWith(s, p) == Len(s) >= Len(p) /\ SubSeq(s, 1, Len(p)) = p

\* str.endswith
EndsWith(s, p) ==
    Len(s) >= Len(p) /\ SubSeq(s, Len(s) - Len(p) + 1, Len(s)) = p

\* x in s, for a one-symbol x
Contains(s, x) == \E i \in 1..Len(s) : s[i] = x

RECURSIVE LStrip(_)
LStrip(s) ==
    IF s # <<>> /\ Head(s) \in Whitespace THEN LStrip(Tail(s)) ELSE s

RECURSIVE RStrip(_)
RStrip(s) ==
    IF s # <<>> /\ s[Len(s)] \in Whitespace
    THEN RStrip(SubSeq(s, 1, Len(s) - 1))
    ELSE s

\* str.strip()
Strip(s) == RStrip(LStrip(s))

\* the number of whitespace symbols of s from position i on (a greedy \s*)
RECURSIVE WsRun(_, _)
WsRun(s, i) ==
    IF i <= Len(s) /\ s[i] \in Whitespace THEN 1 + WsRun(s, i + 1) ELSE 0

\* str.split()[0] for a string with a non-whitespace symbol: its first word
RECURSIVE FirstWordOf(_)
FirstWordOf(s) ==
    IF s = <<>> \/ Head(s) \in Whitespace
    THEN <<>>
    ELSE <<Head(s)>> \o FirstWordOf(Tail(s))

\* os.path.basename: what follows the last "/"
RECURSIVE Basename(_)
Basename(s) ==
    IF Contains(s, "/") THEN Basename(Tail(s)) ELSE s


(***************************************************************************)
(* shlex.split(s): the POSIX-mode lexer with whitespace_split, no comment  *)
(* characters and no punctuation characters.  state is the lexer's state   *)
(* (" " between tokens, "a" in a word, a quote character inside that       *)
(* quote, the backslash after an escape), escapedstate the state an escape *)
(* returns to, token the token being built, quoted whether it had a        *)
(* quoted part, out the tokens read so far.  The result is                 *)
(* [ok |-> FALSE] for ValueError (no closing quotation, no escaped         *)
(* character) and [ok |-> TRUE, tokens |-> ...] otherwise.                 *)
(***************************************************************************)
RECURSIVE read_token(_, _, _, _, _, _, _)
read_token(s, i, state, escapedstate, token, quoted, out) ==
    IF i > Len(s)
    THEN IF state \in Quotes \/ state = Escape
         THEN [ok |-> FALSE, tokens |-> <<>>]
         ELSE [ok |-> TRUE,
               tokens |-> IF token # <<>> \/ quoted
                          THEN Append(out, token)
                          ELSE out]
    ELSE LET nextchar == s[i] IN
         IF state \in Quotes
         THEN IF nextchar = state
              THEN read_token(s, i + 1, "a", escapedstate, token, TRUE, out)
              ELSE IF nextchar = Escape /\ state = "\""
              THEN read_token(s, i + 1, Escape, state, token, TRUE, out)
              ELSE read_token(s, i + 1, state, escapedstate,
                              Append(token, nextchar), TRUE, out)
         ELSE IF state = Escape
         THEN LET kept == IF escapedstate \in Quotes /\ nextchar # Escape
                             /\ nextchar # escapedstate
                          THEN token \o <<Escape, nextchar>>
                          ELSE Append(token, nextchar)
              IN read_token(s, i + 1, escapedstate, escapedstate, kept,
                            quoted, out)
         ELSE \* state " " or "a"
              IF nextchar \in Whitespace
              THEN IF token # <<>> \/ quoted
                   THEN read_token(s, i + 1, " ", escapedstate, <<>>, FALSE,
                                   Append(out, token))
                   ELSE read_token(s, i + 1, " ", escapedstate, token,
                                   quoted, out)
              ELSE IF nextchar = Escape
              THEN read_token(s, i + 1, Escape, "a", token, quoted, out)
              ELSE IF nextchar \in Quotes
              THEN read_token(s, i + 1, nextchar, escapedstate, token,
                              TRUE, out)
              ELSE read_token(s, i + 1, "a", escapedstate,
                              Append(token, nextchar), quoted, out)

shlex_split(s) == read_token(s, 1, " ", " ", <<>>, FALSE, <<>>)

(***************************************************************************)
(* re.split(r'(?<!["\'])\s*;\s*(?!["\'])', command_string).                *)
(* MatchEnd(s, i) is the position of the last symbol of the match that     *)
(* starts at position i, or 0 when the pattern does not match there: the   *)
(* symbol before i is no quote, a run of whitespace leads to a ";", and    *)
(* the greedy run of whitespace after it is given back one symbol when a   *)
(* quote follows it (the symbol that then follows is whitespace).          *)
(***************************************************************************)
MatchEnd(s, i) ==
    LET j == i + WsRun(s, i)
        m == WsRun(s, j + 1)
    IN  IF (i > 1 /\ s[i - 1] \in Quotes) \/ j > Len(s) \/ s[j] # ";"
        THEN 0
        ELSE IF j + m + 1 > Len(s) \/ s[j + m + 1] \notin Quotes
        THEN j + m
        ELSE IF m >= 1 THEN j + m - 1
        ELSE 0

\* the pieces between the matches, scanning for the leftmost match from i on;
\* from is where the piece being collected starts
RECURSIVE re_split_from(_, _, _)
re_split_from(s, from, i) ==
    IF i > Len(s)
    THEN << From(s, from) >>
    ELSE IF MatchEnd(s, i) # 0
    THEN << SubSeq(s, from, i - 1) >>
         \o re_split_from(s, MatchEnd(s, i) + 1, MatchEnd(s, i) + 1)
    ELSE re_split_from(s, from, i + 1)

re_split(s) == re_split_from(s, 1, 1)

(***************************************************************************)
(* _extract_commands (security.py:112-160).                                *)
(***************************************************************************)
\* scan_tokens without "expect_command = False": every eligible word is
\* taken as a command
RECURSIVE scan_tokens_never_argument(_, _, _)
scan_tokens_never_argument(tokens, expect_command, commands) ==
    IF tokens = <<>>
    THEN commands
    ELSE LET token == Head(tokens) IN
         IF token \in ShellOperators
         THEN scan_tokens_never_argument(Tail(tokens), TRUE, commands)
         ELSE IF token \in ShellKeywords
                 \/ StartsWith(token, <<"-">>)
                 \/ (Contains(token, "=") /\ ~StartsWith(token, <<"=">>))
         THEN scan_tokens_never_argument(Tail(tokens), expect_command,
                                         commands)
         ELSE IF expect_command
         THEN scan_tokens_never_argument(Tail(tokens), expect_command,
                  Append(commands, Basename(token)))
         ELSE scan_tokens_never_argument(Tail(tokens), expect_command,
                                         commands)

\* security.py:136-158: the loop over one segment's tokens
RECURSIVE scan_tokens(_, _, _)
scan_tokens(tokens, expect_command, commands) ==
    IF tokens = <<>>
    THEN commands
    ELSE LET token == Head(tokens) IN
         IF token \in ShellOperators
         THEN scan_tokens(Tail(tokens), TRUE, commands)
         ELSE IF token \in ShellKeywords
         THEN scan_tokens(Tail(tokens), expect_command, commands)
         ELSE IF StartsWith(token, <<"-">>)
         THEN scan_tokens(Tail(tokens), expect_command, commands)
         ELSE IF Contains(token, "=") /\ ~StartsWith(token, <<"=">>)
         THEN scan_tokens(Tail(tokens), expect_command, commands)
         ELSE IF expect_command
         THEN scan_tokens(Tail(tokens), FALSE,
                          Append(commands, Basename(token)))
         ELSE scan_tokens(Tail(tokens), expect_command, commands)

\* extract_segments with "continue" where the code has "return []": a segment
\* shlex cannot split is skipped
RECURSIVE extract_segments_skipping(_, _)
extract_segments_skipping(segments, commands) ==
    IF segments = <<>>
    THEN commands
    ELSE LET segment == Strip(Head(segments)) IN
         IF segment = <<>> \/ ~shlex_split(segment).ok
         THEN extract_segments_skipping(Tail(segments), commands)
         ELSE extract_segments_skipping(Tail(segments),
                  scan_tokens(shlex_split(segment).tokens, TRUE, commands))

\* security.py:119-158: the loop over the segments; a segment shlex cannot
\* split ends the whole extraction with the empty list
RECURSIVE extract_segments(_, _)
extract_segments(segments, commands) ==
    IF segments = <<>>
    THEN commands
    ELSE LET segment == Strip(Head(segments)) IN
         IF segment = <<>>
         THEN extract_segments(Tail(segments), commands)
         ELSE IF ~shlex_split(segment).ok
         THEN <<>>
         ELSE extract_segments(Tail(segments),
                  scan_tokens(shlex_split(segment).tokens, TRUE, commands))

_extract_commands(command_string_) ==
    extract_segments(re_split(command_string_), <<>>)

(***************************************************************************)
(* The per-command validators (security.py:162-263).  Each is handed the   *)
(* command_string validate_command was called with.                        *)
(***************************************************************************)
NotFlag(t) == ~StartsWith(t, <<"-">>)

\* security.py:162-196
_validate_pkill(command_string_) ==
    IF ~shlex_split(command_string_).ok
    THEN Deny(<<"Could not parse pkill command">>)
    ELSE LET tokens == shlex_split(command_string_).tokens
             args == SelectSeq(From(tokens, 2), NotFlag)
         IN  IF args = <<>>
             THEN Deny(<<"pkill requires a process name">>)
             ELSE LET last == args[Len(args)] IN
                  IF Contains(last, " ") /\ LStrip(last) = <<>>
                  THEN Raise("IndexError")   \* target.split()[0] of no word
                  ELSE LET target == IF Contains(last, " ")
                                     THEN FirstWordOf(LStrip(last))
                                     ELSE last
                       IN  IF target \in allowed_process_names
                           THEN Allow
                           ELSE Deny(<<"pkill only allowed for dev processes: ",
                                       allowed_process_names>>)

\* re.match(r"^[ugoa]*\+x$", mode): $ also matches before one final newline
ModeMatches(mode) ==
    LET core == IF mode # <<>> /\ mode[Len(mode)] = "\n"
                THEN SubSeq(mode, 1, Len(mode) - 1)
                ELSE mode
    IN  /\ EndsWith(core, <<"+", "x">>)
        /\ \A i \in 1..(Len(core) - 2) : core[i] \in {"u", "g", "o", "a"}

\* _validate_chmod taking the token after chmod as the mode: flags are not
\* skipped
_validate_chmod_flags_not_skipped(command_string_) ==
    IF ~shlex_split(command_string_).ok
    THEN Deny(<<"Could not parse chmod command">>)
    ELSE LET tokens == shlex_split(command_string_).tokens IN
         IF Len(tokens) < 3
         THEN Deny(<<"chmod requires mode and file">>)
         ELSE IF ~ModeMatches(tokens[2])
         THEN Deny(<<"chmod only allowed with +x mode, got: ", tokens[2]>>)
         ELSE Allow

\* security.py:198-222
_validate_chmod(command_string_) ==
    IF ~shlex_split(command_string_).ok
    THEN Deny(<<"Could not parse chmod command">>)
    ELSE LET tokens == shlex_split(command_string_).tokens
             nonflags == SelectSeq(From(tokens, 2), NotFlag)
         IN  IF Len(tokens) < 3
             THEN Deny(<<"chmod requires mode and file">>)
             ELSE IF nonflags = <<>>
             THEN Deny(<<"chmod requires a mode">>)
             ELSE IF ~ModeMatches(nonflags[1])
             THEN Deny(<<"chmod only allowed with +x mode, got: ",
                         nonflags[1]>>)
             ELSE Allow

\* _validate_init_script testing endswith("init.sh"), without the slash
_validate_init_script_no_slash(command_string_) ==
    IF ~shlex_split(command_string_).ok
    THEN Deny(<<"Could not parse init script command">>)
    ELSE LET tokens == shlex_split(command_string_).tokens IN
         IF tokens = <<>>
         THEN Deny(<<"Empty command">>)
         ELSE IF EndsWith(tokens[1], <<"init.sh">>)
         THEN Allow
         ELSE Deny(<<"Only ./init.sh is allowed, got: ", tokens[1]>>)

\* security.py:224-239
_validate_init_script(command_string_) ==
    IF ~shlex_split(command_string_).ok
    THEN Deny(<<"Could not parse init script command">>)
    ELSE LET tokens == shlex_split(command_string_).tokens IN
         IF tokens = <<>>
         THEN Deny(<<"Empty command">>)
         ELSE IF tokens[1] = <<".", "/", "init.sh">>
                 \/ EndsWith(tokens[1], <<"/", "init.sh">>)
         THEN Allow
         ELSE Deny(<<"Only ./init.sh is allowed, got: ", tokens[1]>>)

\* security.py:241-257
_validate_shell_script(command_string_) ==
    IF ~shlex_split(command_string_).ok
    THEN Deny(<<"Could not parse shell command">>)
    ELSE LET tokens == shlex_split(command_string_).tokens IN
         IF Len(tokens) < 2
         THEN Deny(<<"Shell command requires a script to run">>)
         ELSE IF Contains(tokens[2], "init.sh")
         THEN Allow
         ELSE Deny(<<"bash/sh only allowed for init.sh, got: ", tokens[2]>>)

\* _validate_network_command with a policy: a second token is required
_validate_network_command_requiring_url(command_string_) ==
    IF ~shlex_split(command_string_).ok
    THEN Deny(<<"Could not parse network command">>)
    ELSE IF Len(shlex_split(command_string_).tokens) < 2
    THEN Deny(<<"Network command requires a URL">>)
    ELSE Allow

\* security.py:259-263
_validate_network_command(command_string_) == Allow

\* security.py:88-108: the validator the command name selects
extra_validation(cmd, command_string_) ==
    IF cmd = <<"pkill">> THEN _validate_pkill(command_string_)
    ELSE IF cmd = <<"chmod">> THEN _validate_chmod(command_string_)
    ELSE IF cmd = <<"init.sh">> THEN _validate_init_script(command_string_)
    ELSE IF cmd \in {<<"bash">>, <<"sh">>}
    THEN _validate_shell_script(command_string_)
    ELSE IF cmd \in {<<"curl">>, <<"wget">>}
    THEN _validate_network_command(command_string_)
    ELSE Allow

\* check_commands with "return True" inside the loop: only the first command
\* is examined
check_commands_first_only(commands, command_string_) ==
    IF commands = <<>>
    THEN Allow
    ELSE LET cmd == Head(commands) IN
         IF cmd \notin allowed_commands
         THEN Deny(<<"Command '{cmd}' is not in the allowed commands list",
                     cmd>>)
         ELSE IF cmd \in commands_needing_extra_validation
         THEN extra_validation(cmd, command_string_)
         ELSE Allow

\* check_commands without the early return: every command is examined and
\* the outcome of the last one that fails is returned
RECURSIVE check_commands_last_failure(_, _)
check_commands_last_failure(commands, command_string_) ==
    IF commands = <<>>
    THEN Allow
    ELSE LET cmd == Head(commands)
             rest == check_commands_last_failure(Tail(commands),
                                                 command_string_)
         IN  IF rest # Allow
             THEN rest
             ELSE IF cmd \notin allowed_commands
             THEN Deny(<<"Command '{cmd}' is not in the allowed commands list",
                         cmd>>)
             ELSE IF cmd \in commands_needing_extra_validation
             THEN extra_validation(cmd, command_string_)
             ELSE Allow

\* check_command with a prefix test in place of the membership test
check_command_by_prefix(cmd, command_string_) ==
    IF ~\E a \in allowed_commands : StartsWith(cmd, a)
    THEN Deny(<<"Command '{cmd}' is not in the allowed commands list", cmd>>)
    ELSE IF cmd \in commands_needing_extra_validation
    THEN extra_validation(cmd, command_string_)
    ELSE Allow

\* security.py:84-108: one pass of the loop, for the command cmd; Allow
\* stands for a pass that returns nothing and lets the loop go on.  It reads
\* the two class attributes.
check_command(cmd, command_string_) ==
    IF cmd \notin allowed_commands
    THEN Deny(<<"Command '{cmd}' is not in the allowed commands list", cmd>>)
    ELSE IF cmd \in commands_needing_extra_validation
    THEN extra_validation(cmd, command_string_)
    ELSE Allow

\* security.py:83-110: the loop over the extracted commands
RECURSIVE check_commands(_, _)
check_commands(commands, command_string_) ==
    IF commands = <<>>
    THEN Allow
    ELSE IF check_command(Head(commands), command_string_) # Allow
    THEN check_command(Head(commands), command_string_)
    ELSE check_commands(Tail(commands), command_string_)

\* validate_command without the test of security.py:79: an empty list of
\* commands goes to the loop
validate_command_without_empty_test(command_string_) ==
    check_commands(_extract_commands(command_string_), command_string_)

\* security.py:66-110
validate_command(command_string_) ==
    IF _extract_commands(command_string_) = <<>>
    THEN Deny(<<"Could not parse command for security validation">>)
    ELSE check_commands(_extract_commands(command_string_), command_string_)

(***************************************************************************)
(* The state machine: the caller holds a command string (pc = "call"),     *)
(* calls validate_command on it, and holds what the call produced          *)
(* (pc = "done").  The command strings are the concatenations of at most   *)
(* MaxPhrases phrases of a vocabulary; each specification below draws from *)
(* the vocabulary that spells the cases of its properties.                 *)
(***************************************************************************)
RECURSIVE Flatten(_)
Flatten(phrases) ==
    IF phrases = <<>> THEN <<>> ELSE Head(phrases) \o Flatten(Tail(phrases))

Inputs(vocabulary, n) ==
    { Flatten(ps) : ps \in UNION { [1..k -> vocabulary] : k \in 0..n } }

NoResult == [kind |-> "none"]

\* the runners and the MCP manager are not in use
HarnessIdle ==
    /\ agent = NotRunning
    /\ backlog = NotRunning
    /\ workflow = NotRunning
    /\ mcp = NotRunning

\* the class attributes as the class statement binds them (security.py:17-64)
InitClass ==
    /\ allowed_commands = ALLOWED_COMMANDS
    /\ commands_needing_extra_validation = COMMANDS_NEEDING_EXTRA_VALIDATION

\* one caller, about to validate a string; no other caller
InitWith(vocabulary, n) ==
    /\ command_string \in Inputs(vocabulary, n)
    /\ pc = "call"
    /\ result = NoResult
    /\ InitClass
    /\ history = <<>>
    /\ threads = <<>>
    /\ HarnessIdle

\* a call that also adds the commands it extracted to ALLOWED_COMMANDS
ValidateLearning ==
    /\ pc = "call"
    /\ result' = validate_command(command_string)
    /\ pc' = "done"
    /\ history' = Append(history, <<command_string, result'>>)
    /\ allowed_commands' =
          allowed_commands \cup
              { _extract_commands(command_string)[k] :
                    k \in 1..Len(_extract_commands(command_string)) }
    /\ UNCHANGED <<command_string, commands_needing_extra_validation,
                   threads>>
    /\ UNCHANGED harness_vars

\* one call of SecurityValidator.validate_command (security.py:66-110): it
\* assigns to locals only
Validate ==
    /\ pc = "call"
    /\ result' = validate_command(command_string)
    /\ pc' = "done"
    /\ history' = Append(history, <<command_string, result'>>)
    /\ UNCHANGED <<command_string, allowed_commands,
                   commands_needing_extra_validation, threads>>
    /\ UNCHANGED harness_vars

Next == Validate

\* separators and operators around allowlisted and other command words
OperatorVocabulary ==
    { <<"ls">>, <<"rm">>, <<" ">>, <<";">>, <<"|">>, <<"&">>, <<"-">> }

Init == InitWith(OperatorVocabulary, MaxPhrases)

Spec == Init /\ [][Next]_vars

\* quotes, the backslash and ";" around allowlisted and other command words
QuoteVocabulary ==
    { <<"ls">>, <<" ">>, <<";">>, <<"'">>, <<"\"">>, <<"\\">>,
      <<"echo", " ">>, <<"a", ";", " ", "b">> }

InitQuote == InitWith(QuoteVocabulary, MaxPhrases)

SpecQuote == InitQuote /\ [][Next]_vars

\* pkill with allowed and other targets, beside other commands
PkillVocabulary ==
    { <<"pkill", " ">>, <<"node">>, <<"evil">>, <<";", " ">>, <<"ls", " ">>,
      <<"'">>, <<" ">>, <<"-">> }

InitPkill == InitWith(PkillVocabulary, MaxPhrases)

SpecPkill == InitPkill /\ [][Next]_vars

\* chmod with flags, symbolic and numeric modes, a file, an escaped newline
ChmodVocabulary ==
    { <<"chmod", " ">>, <<"-", "R", " ">>, <<"+", "x">>, <<"u">>,
      <<"-", "x">>, <<"777">>, <<" ", "f">>, <<"\\", "\n">> }

InitChmod == InitWith(ChmodVocabulary, MaxPhrases)

SpecChmod == InitChmod /\ [][Next]_vars

\* init.sh bare, under paths, behind flags and assignments
InitScriptVocabulary ==
    { <<"init.sh">>, <<".">>, <<"/">>, <<" ">>, <<" ", "x">>, <<"opt">>,
      <<"-">>, <<"=">> }

InitInitScript == InitWith(InitScriptVocabulary, MaxPhrases)

SpecInitScript == InitInitScript /\ [][Next]_vars

\* bash and sh with and without scripts, alone and after a pipe or a ";"
ShellVocabulary ==
    { <<"echo", " ">>, <<" ", "|", " ">>, <<"bash">>, <<"sh">>,
      <<"init.sh">>, <<"setup.sh">>, <<" ">>, <<";">> }

InitShell == InitWith(ShellVocabulary, MaxPhrases)

SpecShell == InitShell /\ [][Next]_vars

\* operators and a keyword inside quotes, between allowlisted and other words
QuotedOperatorVocabulary ==
    { <<"echo", " ">>, <<"ls">>, <<"rm">>, <<" ">>, <<"'", "|", "'">>,
      <<"\"", "&", "&", "\"">>, <<"'", "if", "'">>, <<"|">> }

InitQuotedOperator == InitWith(QuotedOperatorVocabulary, MaxPhrases)

SpecQuotedOperator == InitQuotedOperator /\ [][Next]_vars

\* several commands in a row, some refused by the allowlist, some by pkill's
\* validator, some under a path
OrderVocabulary ==
    { <<"pkill", " ">>, <<"node">>, <<"evil">>, <<";", " ">>, <<"ls", " ">>,
      <<"/", "rm">>, <<" ", "&", "&", " ">>, <<"bin">> }

InitOrder == InitWith(OrderVocabulary, MaxPhrases)

SpecOrder == InitOrder /\ [][Next]_vars

\* curl and wget with flags and a URL, alone and piped into a shell
NetworkVocabulary ==
    { <<"curl", " ">>, <<"wget", " ">>, <<"-", "o", " ">>,
      <<"http", ":", "/", "/", "evil">>, <<" ", "|", " ">>, <<"sh">>,
      <<"ls", " ">>, <<";", " ">> }

InitNetwork == InitWith(NetworkVocabulary, MaxPhrases)

SpecNetwork == InitNetwork /\ [][Next]_vars

\* an allowlisted name, the same in upper case, with a prefix or suffix,
\* and under paths
NameVocabulary ==
    { <<"ls">>, <<"LS">>, <<"x">>, <<"/">>, <<" ">>, <<"bin">>, <<".">>,
      <<"-", "l">> }

InitName == InitWith(NameVocabulary, MaxPhrases)

SpecName == InitName /\ [][Next]_vars

\* flags, assignments, a keyword and operator tokens around command words
ExtractVocabulary ==
    { <<"ls">>, <<"rm">>, <<" ">>, <<" ", "|", " ">>, <<" ", "&">>,
      <<"&", " ">>, <<"-">>, <<"=">>, <<"if", " ">> }

InitExtract == InitWith(ExtractVocabulary, MaxPhrases)

SpecExtract == InitExtract /\ [][Next]_vars

\* whitespace, separators, a flag, a keyword and an assignment, and one
\* command word
EmptyVocabulary ==
    { <<" ">>, <<";">>, <<"|">>, <<"&">>, <<"-", "x">>, <<"if">>,
      <<"A", "=", "1">>, <<"ls">> }

InitEmpty == InitWith(EmptyVocabulary, MaxPhrases)

SpecEmpty == InitEmpty /\ [][Next]_vars

(***************************************************************************)
(* A caller that calls validate_command again and again.                   *)
(***************************************************************************)
\* an allowlisted command, and a command that is not, behind a separator
CallerVocabulary == { <<"ls">>, <<";", "rm">> }

CallerInputs == Inputs(CallerVocabulary, MaxCallerPhrases)

\* the caller validates one more string
CallAgain ==
    /\ pc = "done"
    /\ Len(history) < MaxCalls
    /\ command_string' \in CallerInputs
    /\ pc' = "call"
    /\ result' = NoResult
    /\ UNCHANGED <<allowed_commands, commands_needing_extra_validation,
                   history, threads>>
    /\ UNCHANGED harness_vars

NextRepeat == Validate \/ CallAgain

InitRepeat == InitWith(CallerVocabulary, MaxCallerPhrases)

SpecRepeat == InitRepeat /\ [][NextRepeat]_vars

(***************************************************************************)
(* Callers in several threads.  A call keeps command_string, commands and  *)
(* cmd in its own frame; between two threads only the class attributes are *)
(* shared.  A thread takes one step for _extract_commands (security.py:77) *)
(* and one for each pass of the loop (security.py:83-108), which reads the *)
(* class attributes; threads[t].commands holds the commands still to pass. *)
(***************************************************************************)
Threads == 1..MaxThreads

InitThreads ==
    /\ threads \in [Threads ->
           { [pc |-> "call", command_string |-> s, commands |-> <<>>,
              result |-> NoResult] : s \in CallerInputs }]
    /\ InitClass
    /\ command_string = <<>>
    /\ pc = "idle"
    /\ result = NoResult
    /\ history = <<>>
    /\ HarnessIdle

\* security.py:77-80
ThreadExtract(t) ==
    LET commands == _extract_commands(threads[t].command_string) IN
    /\ threads[t].pc = "call"
    /\ threads' =
          [threads EXCEPT ![t] =
              IF commands = <<>>
              THEN [@ EXCEPT !.pc = "done",
                             !.result = Deny(<<"Could not parse command for security validation">>)]
              ELSE [@ EXCEPT !.pc = "loop", !.commands = commands]]
    /\ UNCHANGED <<command_string, pc, result, allowed_commands,
                   commands_needing_extra_validation, history>>
    /\ UNCHANGED harness_vars

\* a thread's pass of the loop that also removes cmd from ALLOWED_COMMANDS
ThreadCheckConsuming(t) ==
    LET cmd == Head(threads[t].commands)
        outcome == check_command(cmd, threads[t].command_string)
    IN  /\ threads[t].pc = "loop"
        /\ threads' =
              [threads EXCEPT ![t] =
                  IF outcome # Allow
                  THEN [@ EXCEPT !.pc = "done", !.result = outcome]
                  ELSE IF Tail(@.commands) = <<>>
                  THEN [@ EXCEPT !.pc = "done", !.result = Allow,
                                 !.commands = <<>>]
                  ELSE [@ EXCEPT !.commands = Tail(@)]]
        /\ allowed_commands' = allowed_commands \ {cmd}
        /\ UNCHANGED <<command_string, pc, result,
                       commands_needing_extra_validation, history>>
        /\ UNCHANGED harness_vars

\* security.py:83-110: one pass of the loop, and the return after the last
ThreadCheck(t) ==
    LET cmd == Head(threads[t].commands)
        outcome == check_command(cmd, threads[t].command_string)
    IN  /\ threads[t].pc = "loop"
        /\ threads' =
              [threads EXCEPT ![t] =
                  IF outcome # Allow
                  THEN [@ EXCEPT !.pc = "done", !.result = outcome]
                  ELSE IF Tail(@.commands) = <<>>
                  THEN [@ EXCEPT !.pc = "done", !.result = Allow,
                                 !.commands = <<>>]
                  ELSE [@ EXCEPT !.commands = Tail(@)]]
        /\ UNCHANGED <<command_string, pc, result, allowed_commands,
                       commands_needing_extra_validation, history>>
        /\ UNCHANGED harness_vars

NextThreads == \E t \in Threads : ThreadExtract(t) \/ ThreadCheck(t)

SpecThreads == InitThreads /\ [][NextThreads]_vars

(***************************************************************************)
(* run_autonomous_agent (cursor_agent_runner.py:21-154).  An Optional[int] *)
(* is <<>> for None and <<n>> for the integer n.  agent.sessions lists the *)
(* sessions started so far: the prompt each was given, the status          *)
(* run_session returned ("running" until it does) and what count_features *)
(* returned after a complete one.                                          *)
(***************************************************************************)
None == <<>>

\* the truth value Python gives an Optional[int]
Truthy(optional) == optional # None /\ optional[1] # 0

\* the validator is not in use
ValidatorIdle ==
    /\ command_string = <<>>
    /\ pc = "idle"
    /\ result = NoResult
    /\ InitClass
    /\ history = <<>>
    /\ threads = <<>>

\* what run_session returns as status (cursor_agent_runner.py:103-126)
SessionStatuses == {"complete", "max_turns", "error", "other"}

\* what count_features returns: (passing, total) (progress.py:72-101)
FeatureCounts == { <<0, 0>>, <<1, 2>>, <<2, 2>> }

\* cursor_agent_runner.py:56-74: the call has reached the loop
InitAgent ==
    /\ \E max_iterations \in {None} \cup { <<n>> : n \in 0..MaxIterations },
          feature_file_exists \in BOOLEAN :
          agent = [pc |-> "loop",
                   max_iterations |-> max_iterations,
                   feature_file_existed |-> feature_file_exists,
                   is_first_run |-> ~feature_file_exists,
                   iteration |-> 0,
                   sessions |-> <<>>]
    /\ backlog = NotRunning
    /\ workflow = NotRunning
    /\ mcp = NotRunning
    /\ ValidatorIdle

\* cursor_agent_runner.py:77-83: the limit is reached, the loop ends
AgentReachLimit ==
    /\ agent.pc = "loop"
    /\ Truthy(agent.max_iterations)
    /\ agent.iteration + 1 > agent.max_iterations[1]
    /\ agent' = [agent EXCEPT !.pc = "returned",
                               !.iteration = @ + 1]
    /\ UNCHANGED <<validator_vars, backlog, workflow, mcp>>

\* AgentStartSession without "is_first_run = False"
AgentStartSessionKeepingFirstRun ==
    /\ agent.pc = "loop"
    /\ ~(Truthy(agent.max_iterations)
          /\ agent.iteration + 1 > agent.max_iterations[1])
    /\ Len(agent.sessions) < MaxSessions
    /\ agent' =
          [agent EXCEPT
              !.pc = "session",
              !.iteration = @ + 1,
              !.sessions =
                  Append(@, [prompt |-> IF agent.is_first_run
                                        THEN "initializer_prompt"
                                        ELSE "coding_prompt",
                             status |-> "running",
                             features |-> <<0, 0>>])]
    /\ UNCHANGED <<validator_vars, backlog, workflow, mcp>>

\* cursor_agent_runner.py:77-103: the next iteration picks its prompt and
\* awaits client.run_session(prompt)
AgentStartSession ==
    /\ agent.pc = "loop"
    /\ ~(Truthy(agent.max_iterations)
          /\ agent.iteration + 1 > agent.max_iterations[1])
    /\ Len(agent.sessions) < MaxSessions
    /\ agent' =
          [agent EXCEPT
              !.pc = "session",
              !.iteration = @ + 1,
              !.is_first_run = FALSE,
              !.sessions =
                  Append(@, [prompt |-> IF agent.is_first_run
                                        THEN "initializer_prompt"
                                        ELSE "coding_prompt",
                             status |-> "running",
                             features |-> <<0, 0>>])]
    /\ UNCHANGED <<validator_vars, backlog, workflow, mcp>>

\* AgentSessionReturns giving up after a session that returned "error"
AgentSessionReturnsNoRetry(status, features) ==
    /\ agent.pc = "session"
    /\ agent' =
          [agent EXCEPT
              !.pc = IF status = "error"
                        \/ (status = "complete"
                            /\ features[2] > 0 /\ features[1] >= features[2])
                     THEN "returned"
                     ELSE "loop",
              !.sessions[Len(agent.sessions)].status = status,
              !.sessions[Len(agent.sessions)].features =
                  IF status = "complete" THEN features ELSE <<0, 0>>]
    /\ UNCHANGED <<validator_vars, backlog, workflow, mcp>>

\* cursor_agent_runner.py:103-134: run_session returns status; after
\* "complete" count_features returns features = (passing, total)
AgentSessionReturns(status, features) ==
    /\ agent.pc = "session"
    /\ agent' =
          [agent EXCEPT
              !.pc = IF status = "complete"
                        /\ features[2] > 0 /\ features[1] >= features[2]
                     THEN "returned"
                     ELSE "loop",
              !.sessions[Len(agent.sessions)].status = status,
              !.sessions[Len(agent.sessions)].features =
                  IF status = "complete" THEN features ELSE <<0, 0>>]
    /\ UNCHANGED <<validator_vars, backlog, workflow, mcp>>

NextAgent ==
    \/ AgentReachLimit
    \/ AgentStartSession
    \/ \E status \in SessionStatuses, features \in FeatureCounts :
           AgentSessionReturns(status, features)

SpecAgent == InitAgent /\ [][NextAgent]_vars

(***************************************************************************)
(* run_autonomous_backlog (autonomous_backlog_runner.py:18-122), on a      *)
(* build that loads the module.  backlog.events lists what the run has     *)
(* done to the tracker and the workflow: <<"query", ids>> for a            *)
(* query_work_items call that returned the items ids, <<"workflow", id,    *)
(* outcome>> for a workflow that ended, <<"mark_done", id>> for a          *)
(* mark_done call.  run_multi_agent_workflow_for_pbi returns True or       *)
(* leaves by an exception of one of its calls (lines 125-198); it never    *)
(* returns False, so the branch of lines 119-122 is not reached.           *)
(***************************************************************************)
\* the ids of the work items the tracker holds
PbiIds == {"PBI-1", "PBI-2"}

\* autonomous_backlog_runner.py:47-49: the call has reached the loop
InitBacklog ==
    /\ \E max_pbis \in {None} \cup { <<n>> : n \in 0..MaxPbis } :
          backlog = [pc |-> "query",
                     max_pbis |-> max_pbis,
                     pbis_completed |-> 0,
                     pbi |-> "",
                     queries |-> 0,
                     events |-> <<>>]
    /\ agent = NotRunning
    /\ workflow = NotRunning
    /\ mcp = NotRunning
    /\ ValidatorIdle

\* autonomous_backlog_runner.py:55-70: the query returns no item; the run
\* returns when max_pbis is not None, else it awaits asyncio.sleep(3600)
BacklogQueryEmpty ==
    /\ backlog.pc = "query"
    /\ backlog.queries < MaxQueries
    /\ backlog' =
          [backlog EXCEPT
              !.pc = IF backlog.max_pbis = None THEN "sleep" ELSE "returned",
              !.queries = @ + 1,
              !.events = Append(@, <<"query", {}>>)]
    /\ UNCHANGED <<validator_vars, agent, workflow, mcp>>

\* autonomous_backlog_runner.py:66-67: the sleep ends, continue
BacklogWake ==
    /\ backlog.pc = "sleep"
    /\ backlog' = [backlog EXCEPT !.pc = "query"]
    /\ UNCHANGED <<validator_vars, agent, workflow, mcp>>

\* autonomous_backlog_runner.py:55-101: the query returns the item id; its
\* spec is written and the workflow is awaited
BacklogQueryItem(id) ==
    /\ backlog.pc = "query"
    /\ backlog.queries < MaxQueries
    /\ backlog' =
          [backlog EXCEPT
              !.pc = "workflow",
              !.pbi = id,
              !.queries = @ + 1,
              !.events = Append(@, <<"query", {id}>>)]
    /\ UNCHANGED <<validator_vars, agent, workflow, mcp>>

\* autonomous_backlog_runner.py:95-118: the workflow returned True
BacklogWorkflowSucceeds ==
    /\ backlog.pc = "workflow"
    /\ backlog' =
          [backlog EXCEPT
              !.pc = IF Truthy(backlog.max_pbis)
                        /\ backlog.pbis_completed + 1 >= backlog.max_pbis[1]
                     THEN "returned"
                     ELSE "query",
              !.pbis_completed = @ + 1,
              !.events = @ \o << <<"workflow", backlog.pbi, "True">>,
                                 <<"mark_done", backlog.pbi>> >>]
    /\ UNCHANGED <<validator_vars, agent, workflow, mcp>>

\* BacklogWorkflowRaises with the exception caught: the run goes on to the
\* next query
BacklogWorkflowRaisesAndContinues ==
    /\ backlog.pc = "workflow"
    /\ backlog' =
          [backlog EXCEPT
              !.pc = "query",
              !.events = Append(@, <<"workflow", backlog.pbi, "raise">>)]
    /\ UNCHANGED <<validator_vars, agent, workflow, mcp>>

\* autonomous_backlog_runner.py:95: the workflow left by an exception, which
\* nothing in run_autonomous_backlog catches
BacklogWorkflowRaises ==
    /\ backlog.pc = "workflow"
    /\ backlog' =
          [backlog EXCEPT
              !.pc = "raised",
              !.events = Append(@, <<"workflow", backlog.pbi, "raise">>)]
    /\ UNCHANGED <<validator_vars, agent, workflow, mcp>>

NextBacklog ==
    \/ BacklogQueryEmpty
    \/ BacklogWake
    \/ \E id \in PbiIds : BacklogQueryItem(id)
    \/ BacklogWorkflowSucceeds
    \/ BacklogWorkflowRaises

SpecBacklog == InitBacklog /\ [][NextBacklog]_vars

(***************************************************************************)
(* run_multi_agent_workflow_for_pbi (autonomous_backlog_runner.py:125-198).*)
(* workflow.log lists the calls that returned: <<"prompt", a>> for         *)
(* load_agent_prompt, <<"comment", a>> for add_comment, <<"mark", a>> for  *)
(* mark_agent_complete.  A call that raises ends the function.             *)
(***************************************************************************)
\* autonomous_backlog_runner.py:139
agents == <<"architect", "engineer", "tester", "code_review", "security", "devops">>

\* autonomous_backlog_runner.py:152-153: the saved state has been read
InitWorkflow ==
    /\ \E completed_agents \in SUBSET { agents[i] : i \in 1..Len(agents) } :
          workflow = [pc |-> "loop",
                      completed_agents |-> completed_agents,
                      index |-> 1,
                      log |-> <<>>,
                      returned |-> <<>>]
    /\ agent = NotRunning
    /\ backlog = NotRunning
    /\ mcp = NotRunning
    /\ ValidatorIdle

\* WorkflowSkip that marks the completed agent again
WorkflowSkipMarking ==
    /\ workflow.pc = "loop"
    /\ workflow.index <= Len(agents)
    /\ agents[workflow.index] \in workflow.completed_agents
    /\ workflow' = [workflow EXCEPT
                       !.index = @ + 1,
                       !.log = Append(@, <<"mark", agents[workflow.index]>>)]
    /\ UNCHANGED <<validator_vars, agent, backlog, mcp>>

\* autonomous_backlog_runner.py:155-159: the agent is already complete
WorkflowSkip ==
    /\ workflow.pc = "loop"
    /\ workflow.index <= Len(agents)
    /\ agents[workflow.index] \in workflow.completed_agents
    /\ workflow' = [workflow EXCEPT !.index = @ + 1]
    /\ UNCHANGED <<validator_vars, agent, backlog, mcp>>

\* autonomous_backlog_runner.py:155-166: load_agent_prompt returns
WorkflowLoadPrompt ==
    /\ workflow.pc = "loop"
    /\ workflow.index <= Len(agents)
    /\ agents[workflow.index] \notin workflow.completed_agents
    /\ workflow' = [workflow EXCEPT
                       !.pc = "add_comment",
                       !.log = Append(@, <<"prompt", agents[workflow.index]>>)]
    /\ UNCHANGED <<validator_vars, agent, backlog, mcp>>

\* autonomous_backlog_runner.py:182-185: add_comment returns
WorkflowAddComment ==
    /\ workflow.pc = "add_comment"
    /\ workflow' = [workflow EXCEPT
                       !.pc = "mark_agent_complete",
                       !.log = Append(@, <<"comment", agents[workflow.index]>>)]
    /\ UNCHANGED <<validator_vars, agent, backlog, mcp>>

\* autonomous_backlog_runner.py:188-195: mark_agent_complete returns
WorkflowMarkComplete ==
    /\ workflow.pc = "mark_agent_complete"
    /\ workflow' = [workflow EXCEPT
                       !.pc = "loop",
                       !.index = @ + 1,
                       !.log = Append(@, <<"mark", agents[workflow.index]>>)]
    /\ UNCHANGED <<validator_vars, agent, backlog, mcp>>

\* autonomous_backlog_runner.py:166, 182, 188: the call raises
WorkflowRaises ==
    /\ \/ /\ workflow.pc = "loop"
          /\ workflow.index <= Len(agents)
          /\ agents[workflow.index] \notin workflow.completed_agents
       \/ workflow.pc \in {"add_comment", "mark_agent_complete"}
    /\ workflow' = [workflow EXCEPT !.pc = "raised"]
    /\ UNCHANGED <<validator_vars, agent, backlog, mcp>>

\* autonomous_backlog_runner.py:197-198: the loop is over
WorkflowReturn ==
    /\ workflow.pc = "loop"
    /\ workflow.index > Len(agents)
    /\ workflow' = [workflow EXCEPT !.pc = "returned", !.returned = <<TRUE>>]
    /\ UNCHANGED <<validator_vars, agent, backlog, mcp>>

NextWorkflow ==
    \/ WorkflowSkip
    \/ WorkflowLoadPrompt
    \/ WorkflowAddComment
    \/ WorkflowMarkComplete
    \/ WorkflowRaises
    \/ WorkflowReturn

SpecWorkflow == InitWorkflow /\ [][NextWorkflow]_vars

(***************************************************************************)
(* MCPServer and MCPManager (cursor_harness/mcp_manager.py:17-160).        *)
(* mcp.servers is MCPManager.servers; a server's written field counts the  *)
(* requests written to the stdin of its process.  mcp.last is the last     *)
(* operation, the name it was given and how it ended; mcp.ops counts the   *)
(* operations.                                                             *)
(***************************************************************************)
\* the names servers are registered and looked up under
ServerNames == {"puppeteer", "playwright"}

\* mcp_manager.py:83-94: what the process answers a request with
Responses == {"result", "error", "broken_pipe", "invalid_json"}

\* mcp_manager.py:20-26
MCPServer == [process |-> None, request_id |-> 0, written |-> 0]

\* mcp_manager.py:28-47: Popen returns a process or raises
start(server, spawned) ==
    IF spawned
    THEN [server |-> [server EXCEPT !.process = <<"Popen">>],
          outcome |-> "returned"]
    ELSE [server |-> server, outcome |-> "OSError"]

\* call_tool with the request counted before the process is looked at
call_tool_counting_first(server, response) ==
    IF server.process = None
    THEN [server |-> [server EXCEPT !.request_id = @ + 1],
          outcome |-> "RuntimeError"]
    ELSE [server |-> [server EXCEPT
                         !.request_id = @ + 1,
                         !.written = IF response = "broken_pipe" THEN @ ELSE @ + 1],
          outcome |-> IF response = "result" THEN "returned" ELSE "RuntimeError"]

\* mcp_manager.py:49-94
call_tool(server, response) ==
    IF server.process = None
    THEN [server |-> server, outcome |-> "RuntimeError"]
    ELSE [server |-> [server EXCEPT
                         !.request_id = @ + 1,
                         !.written = IF response = "broken_pipe" THEN @ ELSE @ + 1],
          outcome |-> IF response = "result" THEN "returned" ELSE "RuntimeError"]

\* mcp_manager.py:96-105
stop(server) ==
    IF server.process # None
    THEN [server EXCEPT !.process = None]
    ELSE server

\* self.servers[name] = server
Store(servers, name, server) ==
    [n \in DOMAIN servers \cup {name} |-> IF n = name THEN server ELSE servers[n]]

\* mcp_manager.py:115-116
InitMcp ==
    /\ mcp = [pc |-> "ready",
              servers |-> [n \in {} |-> MCPServer],
              last |-> <<"MCPManager", "", "returned">>,
              ops |-> 0]
    /\ agent = NotRunning
    /\ backlog = NotRunning
    /\ workflow = NotRunning
    /\ ValidatorIdle

\* mcp_manager.py:118-129
McpRegisterServer(name) ==
    /\ mcp.pc = "ready"
    /\ mcp.ops < MaxOps
    /\ mcp' = [mcp EXCEPT
                  !.servers = Store(@, name, MCPServer),
                  !.last = <<"register_server", name, "returned">>,
                  !.ops = @ + 1]
    /\ UNCHANGED <<validator_vars, agent, backlog, workflow>>

\* mcp_manager.py:28-47, on a registered server
McpStart(name, spawned) ==
    /\ mcp.pc = "ready"
    /\ mcp.ops < MaxOps
    /\ name \in DOMAIN mcp.servers
    /\ LET started == start(mcp.servers[name], spawned) IN
       mcp' = [mcp EXCEPT
                  !.servers = Store(@, name, started.server),
                  !.last = <<"start", name, started.outcome>>,
                  !.ops = @ + 1]
    /\ UNCHANGED <<validator_vars, agent, backlog, workflow>>

\* mcp_manager.py:49-94, on a registered server
McpServerCallTool(name, response) ==
    /\ mcp.pc = "ready"
    /\ mcp.ops < MaxOps
    /\ name \in DOMAIN mcp.servers
    /\ LET called == call_tool(mcp.servers[name], response) IN
       mcp' = [mcp EXCEPT
                  !.servers = Store(@, name, called.server),
                  !.last = <<"MCPServer.call_tool", name, called.outcome>>,
                  !.ops = @ + 1]
    /\ UNCHANGED <<validator_vars, agent, backlog, workflow>>

\* mcp_manager.py:145-160
McpManagerCallTool(name, response) ==
    /\ mcp.pc = "ready"
    /\ mcp.ops < MaxOps
    /\ IF name \notin DOMAIN mcp.servers
       THEN mcp' = [mcp EXCEPT
                       !.last = <<"MCPManager.call_tool", name, "ValueError">>,
                       !.ops = @ + 1]
       ELSE LET called == call_tool(mcp.servers[name], response) IN
            mcp' = [mcp EXCEPT
                       !.servers = Store(@, name, called.server),
                       !.last = <<"MCPManager.call_tool", name, called.outcome>>,
                       !.ops = @ + 1]
    /\ UNCHANGED <<validator_vars, agent, backlog, workflow>>

\* mcp_manager.py:96-105, on a registered server
McpStop(name) ==
    /\ mcp.pc = "ready"
    /\ mcp.ops < MaxOps
    /\ name \in DOMAIN mcp.servers
    /\ mcp' = [mcp EXCEPT
                  !.servers = Store(@, name, stop(mcp.servers[name])),
                  !.last = <<"stop", name, "returned">>,
                  !.ops = @ + 1]
    /\ UNCHANGED <<validator_vars, agent, backlog, workflow>>

NextMcp ==
    \E name \in ServerNames :
        \/ McpRegisterServer(name)
        \/ \E spawned \in BOOLEAN : McpStart(name, spawned)
        \/ \E response \in Responses : McpServerCallTool(name, response)
        \/ \E response \in Responses : McpManagerCallTool(name, response)
        \/ McpStop(name)

SpecMcp == InitMcp /\ [][NextMcp]_vars

(***************************************************************************)
(* What the properties speak of: the shell's reading of a command string.  *)
(* QuoteMarks(s) marks each symbol "out" (outside quotes, unescaped),      *)
(* "in" (quoted or escaped content) or "delim" (a quote character that     *)
(* opens or closes a span, a backslash that escapes outside quotes).       *)
(***************************************************************************)
RECURSIVE QuoteMarksFrom(_, _, _, _)
QuoteMarksFrom(s, i, q, esc) ==
    IF i > Len(s) THEN <<>>
    ELSE IF esc THEN <<"in">> \o QuoteMarksFrom(s, i + 1, q, FALSE)
    ELSE IF q = "'"
    THEN IF s[i] = "'"
         THEN <<"delim">> \o QuoteMarksFrom(s, i + 1, "", FALSE)
         ELSE <<"in">> \o QuoteMarksFrom(s, i + 1, q, FALSE)
    ELSE IF q = "\""
    THEN IF s[i] = "\""
         THEN <<"delim">> \o QuoteMarksFrom(s, i + 1, "", FALSE)
         ELSE <<"in">> \o QuoteMarksFrom(s, i + 1, q, s[i] = "\\")
    ELSE IF s[i] \in Quotes
    THEN <<"delim">> \o QuoteMarksFrom(s, i + 1, s[i], FALSE)
    ELSE IF s[i] = "\\"
    THEN <<"delim">> \o QuoteMarksFrom(s, i + 1, "", TRUE)
    ELSE <<"out">> \o QuoteMarksFrom(s, i + 1, "", FALSE)

QuoteMarks(s) == QuoteMarksFrom(s, 1, "", FALSE)

\* the quote that is open at the end of s ("" when none is)
RECURSIVE OpenQuoteFrom(_, _, _, _)
OpenQuoteFrom(s, i, q, esc) ==
    IF i > Len(s) THEN q
    ELSE IF esc THEN OpenQuoteFrom(s, i + 1, q, FALSE)
    ELSE IF q = "'"
    THEN OpenQuoteFrom(s, i + 1, IF s[i] = "'" THEN "" ELSE q, FALSE)
    ELSE IF q = "\""
    THEN OpenQuoteFrom(s, i + 1, IF s[i] = "\"" THEN "" ELSE q, s[i] = "\\")
    ELSE IF s[i] \in Quotes THEN OpenQuoteFrom(s, i + 1, s[i], FALSE)
    ELSE OpenQuoteFrom(s, i + 1, "", s[i] = "\\")

UnterminatedQuote(s) == OpenQuoteFrom(s, 1, "", FALSE) # ""

\* s ends in a backslash that escapes nothing
RECURSIVE DanglingEscapeFrom(_, _, _, _)
DanglingEscapeFrom(s, i, q, esc) ==
    IF i > Len(s) THEN esc
    ELSE IF esc THEN DanglingEscapeFrom(s, i + 1, q, FALSE)
    ELSE IF q = "'"
    THEN DanglingEscapeFrom(s, i + 1, IF s[i] = "'" THEN "" ELSE q, FALSE)
    ELSE IF q = "\""
    THEN DanglingEscapeFrom(s, i + 1, IF s[i] = "\"" THEN "" ELSE q,
                            s[i] = "\\")
    ELSE IF s[i] \in Quotes THEN DanglingEscapeFrom(s, i + 1, s[i], FALSE)
    ELSE DanglingEscapeFrom(s, i + 1, "", s[i] = "\\")

DanglingEscape(s) == DanglingEscapeFrom(s, 1, "", FALSE)

SeparatorSymbols == {";", "|", "&"}

\* position i of s holds an unquoted ;, | or & (|| and && are two of them)
UnquotedSeparatorAt(s, i) ==
    s[i] \in SeparatorSymbols /\ QuoteMarks(s)[i] = "out"

\* the parts of s between its unquoted separators, from position i on,
\* the part being collected starting at from
RECURSIVE PartsFrom(_, _, _)
PartsFrom(s, from, i) ==
    IF i > Len(s) THEN << From(s, from) >>
    ELSE IF UnquotedSeparatorAt(s, i)
    THEN << SubSeq(s, from, i - 1) >> \o PartsFrom(s, i + 1, i + 1)
    ELSE PartsFrom(s, from, i + 1)

NotBlank(s) == Strip(s) # <<>>

\* the segments of s: its non-blank parts between unquoted ;, |, ||, &&, &
Segments(s) == SelectSeq(PartsFrom(s, 1, 1), NotBlank)

\* a word that can be a command name: no flag, no NAME=value, no keyword
IsCommandWord(t) ==
    /\ ~StartsWith(t, <<"-">>)
    /\ ~(Contains(t, "=") /\ ~StartsWith(t, <<"=">>))
    /\ t \notin ShellKeywords
    /\ t \notin ShellOperators

\* the words of a segment (<<>> when it has an open quote)
Words(seg) == IF shlex_split(seg).ok THEN shlex_split(seg).tokens ELSE <<>>

\* the segment's command words, in order; the first one is its command
CommandWords(seg) == SelectSeq(Words(seg), IsCommandWord)

Returned == pc = "done" /\ result.kind = "return"

Allowed == pc = "done" /\ result = Allow

Denied == Returned /\ ~result.allowed

(***************************************************************************)
(* Properties.                                                             *)
(***************************************************************************)

\* C1: a command string is allowed if and only if each of its segments (the
\* parts between unquoted ;, |, ||, &&, &) is allowed when validated alone.
\* Stated for the strings whose segments each hold a command word.
C1_SegmentsDecideAlone ==
    LET segs == Segments(command_string) IN
    /\ pc = "done"
    /\ segs # <<>>
    /\ \A k \in 1..Len(segs) : CommandWords(segs[k]) # <<>>
    => ( result = Allow <=>
            \A k \in 1..Len(segs) : validate_command(segs[k]) = Allow )

NpmInstallAndNode ==
    <<"npm", " ", "install", " ", "&", "&", " ", "node", " ", "app.js">>

NpmInstallAndRm ==
    <<"npm", " ", "install", " ", "&", "&", " ", "rm", " ", "-", "rf", " ",
      "/">>

\* "npm install && node app.js" is allowed, "npm install && rm -rf /" is
\* denied for rm
NpmExamples ==
    /\ validate_command(NpmInstallAndNode) = Allow
    /\ validate_command(NpmInstallAndRm) =
          Deny(<<"Command '{cmd}' is not in the allowed commands list",
                 <<"rm">> >>)

\* C2: deny by default: when a command name extracted from the string is not
\* in ALLOWED_COMMANDS the string is not allowed, and what validate_command
\* then returns is (False, reason); "npm install && node app.js" is allowed
\* and "npm install && rm -rf /" is denied.
C2_DenyByDefault ==
    /\ LET commands == _extract_commands(command_string) IN
       pc = "done"
       /\ (\E k \in 1..Len(commands) : commands[k] \notin ALLOWED_COMMANDS)
       => result # Allow /\ (result.kind = "return" => ~result.allowed)
    /\ pc = "done" => NpmExamples

\* an allowlisted command followed by one that is not: denied for the second
C2_Witness ==
    /\ pc = "done"
    /\ Len(_extract_commands(command_string)) = 2
    /\ _extract_commands(command_string)[1] \in ALLOWED_COMMANDS
    /\ _extract_commands(command_string)[2] \notin ALLOWED_COMMANDS
    /\ Denied

\* C3: a command string with a quote that is opened and never closed is
\* denied, whatever else it contains.
C3_UnterminatedQuoteDenied ==
    pc = "done" /\ UnterminatedQuote(command_string) => Denied

\* an allowlisted command, a separator, then a quote that is never closed
C3_Witness ==
    /\ pc = "done"
    /\ UnterminatedQuote(command_string)
    /\ Len(re_split(command_string)) = 2
    /\ _extract_commands(re_split(command_string)[1]) = << <<"ls">> >>
    /\ Denied

\* the words of a segment after its command word
RECURSIVE AfterCommand(_)
AfterCommand(words) ==
    IF words = <<>> THEN <<>>
    ELSE IF IsCommandWord(Head(words)) THEN Tail(words)
    ELSE AfterCommand(Tail(words))

\* the segment invokes a command of one of these names
Invokes(seg, names) ==
    CommandWords(seg) # <<>> /\ Basename(CommandWords(seg)[1]) \in names

\* the words after the command word that are no flags
Arguments(seg) == SelectSeq(AfterCommand(Words(seg)), NotFlag)

\* the first word of an argument that holds whitespace, else the argument
FirstWord(arg) ==
    IF \E i \in 1..Len(arg) : arg[i] \in Whitespace
    THEN FirstWordOf(LStrip(arg))
    ELSE arg

\* C4: validate_command is total: every call returns an (allowed, reason)
\* pair and no exception leaves it.
C4_NoExceptionEscapes == pc = "done" => result.kind = "return"

\* C5: in an allowed command string, the target of every pkill (the last
\* argument of its segment that is no flag, its first word when it holds
\* whitespace) is an allowed development process.  Stated for the pkill
\* segments that have such an argument.
C5_PkillTargetIsDevProcess ==
    LET segs == Segments(command_string) IN
    Allowed =>
        \A k \in 1..Len(segs) :
            Invokes(segs[k], {<<"pkill">>}) /\ Arguments(segs[k]) # <<>> =>
                FirstWord(Arguments(segs[k])[Len(Arguments(segs[k]))])
                    \in allowed_process_names

\* C6: in an allowed command string, every bash or sh is followed in its own
\* segment by a second token, and that token contains init.sh.
C6_ShellRunsInitScript ==
    LET segs == Segments(command_string) IN
    Allowed =>
        \A k \in 1..Len(segs) :
            Invokes(segs[k], {<<"bash">>, <<"sh">>}) =>
                /\ AfterCommand(Words(segs[k])) # <<>>
                /\ Contains(AfterCommand(Words(segs[k]))[1], "init.sh")

\* a command string that is one invocation of a command: it holds no ;, | or
\* &, its text without the surrounding whitespace splits into words, and the
\* first word is the command word
SingleInvocation(s) ==
    /\ \A i \in 1..Len(s) : s[i] \notin SeparatorSymbols
    /\ shlex_split(Strip(s)).ok
    /\ Words(Strip(s)) # <<>>
    /\ IsCommandWord(Words(Strip(s))[1])

\* zero or more of u, g, o, a followed by +x
PlusXMode(mode) ==
    /\ Len(mode) >= 2
    /\ mode[Len(mode) - 1] = "+" /\ mode[Len(mode)] = "x"
    /\ \A i \in 1..(Len(mode) - 2) : mode[i] \in {"u", "g", "o", "a"}

SingleChmod ==
    /\ pc = "done"
    /\ SingleInvocation(command_string)
    /\ Words(Strip(command_string))[1] = <<"chmod">>

\* the first token after chmod that does not start with "-", in a list
ChmodModes == SelectSeq(Tail(Words(Strip(command_string))), NotFlag)

SingleInitScript ==
    /\ pc = "done"
    /\ SingleInvocation(command_string)
    /\ Basename(Words(Strip(command_string))[1]) = <<"init.sh">>

\* C8: a single command whose command word has the basename init.sh is
\* allowed if and only if that word is ./init.sh or ends with /init.sh; the
\* bare word init.sh is denied.
C8_InitScriptNeedsPath ==
    LET script == Words(Strip(command_string))[1] IN
    SingleInitScript =>
        /\ result = Allow <=>
              \/ script = <<".", "/", "init.sh">>
              \/ EndsWith(script, <<"/", "init.sh">>)
        /\ script = <<"init.sh">> => Denied

\* ./init.sh with an argument is allowed
C8_Witness ==
    /\ SingleInitScript
    /\ Words(Strip(command_string)) =
          << <<".", "/", "init.sh">>, <<"x">> >>
    /\ result = Allow

\* C9: every unquoted ;, |, ||, && or & is a command boundary: when the first
\* command word after one is not allowlisted, the string is denied.
C9_SeparatorStartsCommand ==
    LET parts == PartsFrom(command_string, 1, 1) IN
    pc = "done"
    /\ (\E k \in 2..Len(parts) :
           /\ CommandWords(parts[k]) # <<>>
           /\ Basename(CommandWords(parts[k])[1]) \notin ALLOWED_COMMANDS)
    => Denied

\* s with every ";" inside a quoted span replaced by a plain word character
QuotedSemicolonsOpaque(s) ==
    [i \in 1..Len(s) |->
        IF s[i] = ";" /\ QuoteMarks(s)[i] = "in" THEN "," ELSE s[i]]

\* C10: a ";" inside a quoted span is argument content: a string whose
\* quotes are all closed gets the decision it gets with each quoted span
\* taken as one opaque word.  Stated for the strings without a backslash.
C10_QuotedSemicolonIsContent ==
    /\ pc = "done"
    /\ ~UnterminatedQuote(command_string)
    /\ \A i \in 1..Len(command_string) : command_string[i] # "\\"
    => ( result = Allow <=>
           validate_command(QuotedSemicolonsOpaque(command_string)) = Allow )

\* s with every |, & and keyword inside a quoted span replaced by a plain
\* word
QuotedOperatorsOpaque(s) ==
    [i \in 1..Len(s) |->
        IF QuoteMarks(s)[i] = "in" /\ s[i] \in {"|", "&"} THEN ","
        ELSE IF QuoteMarks(s)[i] = "in" /\ <<s[i]>> \in ShellKeywords
        THEN "word"
        ELSE s[i]]

\* C11: an operator or keyword inside quotes is an ordinary word: it does not
\* start a new command and is not skipped as a keyword, so a string whose
\* quotes are all closed gets the decision it gets with each quoted operator
\* or keyword replaced by a plain word.
C11_QuotedOperatorIsWord ==
    /\ pc = "done"
    /\ ~UnterminatedQuote(command_string)
    /\ \A i \in 1..Len(command_string) : command_string[i] \notin {";", "\\"}
    => ( result = Allow <=>
           validate_command(QuotedOperatorsOpaque(command_string)) = Allow )

\* C12: extraction fails closed: when a segment of the string that is not
\* blank holds no command word (only flags, keywords and NAME=value words),
\* the string is denied, whatever its other segments are.
C12_SegmentWithoutCommandDenied ==
    LET segs == Segments(command_string) IN
    pc = "done"
    /\ (\E k \in 1..Len(segs) :
           shlex_split(segs[k]).ok /\ CommandWords(segs[k]) = <<>>)
    => Denied

\* the names a reason shows: the names the pkill reason lists, else the word
\* the reason quotes
ReasonNames(reason) ==
    IF reason[1] = "pkill only allowed for dev processes: " THEN reason[2]
    ELSE IF Len(reason) >= 2 THEN {reason[2]}
    ELSE {}

\* C13: when a string is denied because a pkill has a target that is no
\* development process, the reason names that target.
C13_PkillReasonNamesTarget ==
    LET segs == Segments(command_string) IN
    Denied /\ result.reason[1] = "pkill only allowed for dev processes: " =>
        \E k \in 1..Len(segs) :
            /\ Invokes(segs[k], {<<"pkill">>})
            /\ Arguments(segs[k]) # <<>>
            /\ LET target ==
                       FirstWord(Arguments(segs[k])[Len(Arguments(segs[k]))])
               IN  /\ target \notin allowed_process_names
                   /\ target \in ReasonNames(result.reason)

\* s with an empty segment added: a ";" or " ;" at its end, or one of its
\* ";" doubled
WithEmptySegment(s) ==
    { s \o <<";">>, s \o <<" ", ";">> }
    \cup { SubSeq(s, 1, i) \o <<";">> \o From(s, i + 1) :
              i \in { j \in 1..Len(s) : s[j] = ";" } }

\* C14: empty segments do not change the decision: a string is allowed if and
\* only if it is allowed with a ";" or " ;" added at its end or with one of
\* its ";" doubled.  Stated for the strings without quotes and backslashes.
C14_EmptySegmentsIgnored ==
    /\ pc = "done"
    /\ \A i \in 1..Len(command_string) :
           command_string[i] \notin Quotes \cup {Escape}
    =>
        \A t \in WithEmptySegment(command_string) :
            result = Allow <=> validate_command(t) = Allow

\* the command fails: it is not allowlisted, or its validator does not allow
\* the string
Fails(cmd) ==
    \/ cmd \notin ALLOWED_COMMANDS
    \/ /\ cmd \in COMMANDS_NEEDING_EXTRA_VALIDATION
       /\ extra_validation(cmd, command_string) # Allow

\* what a failing command produces
FailureOf(cmd) ==
    IF cmd \notin ALLOWED_COMMANDS
    THEN Deny(<<"Command '{cmd}' is not in the allowed commands list", cmd>>)
    ELSE extra_validation(cmd, command_string)

\* C15: the extracted commands are examined from left to right and the first
\* failure ends the call: the string is allowed only if no command fails, and
\* otherwise the outcome is the one of the leftmost command that is not
\* allowlisted or that its validator rejects; for a command that is not
\* allowlisted the reason is "Command '<name>' is not in the allowed commands
\* list" with the basename of the command word as <name>.
C15_LeftmostFailureDecides ==
    LET commands == _extract_commands(command_string)
        failing == { k \in 1..Len(commands) : Fails(commands[k]) }
    IN  pc = "done" /\ commands # <<>> =>
            /\ result = Allow <=> failing = {}
            /\ failing # {} =>
                  LET first == CHOOSE k \in failing :
                                   \A j \in failing : k <= j
                  IN  /\ result = FailureOf(commands[first])
                      /\ commands[first] \notin ALLOWED_COMMANDS =>
                            /\ result.reason[2] = commands[first]
                            /\ ~Contains(commands[first], "/")
                            /\ \E k \in 1..Len(Segments(command_string)) :
                                  Invokes(Segments(command_string)[k],
                                          {commands[first]})

\* a pkill its validator rejects, then a command that is not allowlisted: the
\* reason is pkill's
C15_Witness ==
    LET commands == _extract_commands(command_string) IN
    /\ pc = "done"
    /\ Len(commands) = 2
    /\ commands[1] = <<"pkill">> /\ Fails(commands[1])
    /\ commands[2] = <<"rm">>
    /\ Denied
    /\ result.reason[1] = "pkill only allowed for dev processes: "

C17_CallsDoNotInterfere ==
    /\ allowed_commands = ALLOWED_COMMANDS
    /\ commands_needing_extra_validation = COMMANDS_NEEDING_EXTRA_VALIDATION
    /\ \A t \in DOMAIN threads :
          threads[t].pc = "done" =>
              threads[t].result = validate_command(threads[t].command_string)

\* a thread has returned Allow while another is between two passes of its
\* loop, about to deny
C17_Witness ==
    /\ DOMAIN threads = Threads
    /\ \E t, u \in Threads :
          /\ t # u
          /\ threads[t].pc = "done" /\ threads[t].result = Allow
          /\ threads[u].pc = "loop"
          /\ threads[u].command_string = <<"ls", ";", "rm">>
          /\ threads[u].commands = << <<"rm">> >>

\* the commands whose validators can deny
DeniableCommands ==
    { <<"pkill">>, <<"chmod">>, <<"init.sh">>, <<"bash">>, <<"sh">> }

\* C18: a string with at least one extracted command, all of them allowlisted
\* and none of them pkill, chmod, init.sh, bash or sh, is allowed whatever
\* the arguments are; a single invocation of curl or wget is allowed
\* whatever follows the command word.
C18_OtherCommandsUnconditional ==
    LET commands == _extract_commands(command_string) IN
    /\ pc = "done" /\ commands # <<>>
       /\ (\A k \in 1..Len(commands) :
              commands[k] \in ALLOWED_COMMANDS \ DeniableCommands)
       => result = Allow
    /\ pc = "done" /\ SingleInvocation(command_string)
       /\ Basename(Words(Strip(command_string))[1])
              \in {<<"curl">>, <<"wget">>}
       => result = Allow

\* curl -o http://evil is allowed
C18_Witness ==
    /\ pc = "done"
    /\ Words(command_string) =
          << <<"curl">>, <<"-", "o">>, <<"http", ":", "/", "/", "evil">> >>
    /\ result = Allow

\* the last component of a path: what follows its last "/"
RECURSIVE LastComponent(_)
LastComponent(word) ==
    IF \E i \in 1..Len(word) : word[i] = "/"
    THEN LastComponent(Tail(word))
    ELSE word

\* the call denied the string for a name outside the allowlist
DeniedByAllowlist ==
    /\ Denied
    /\ result.reason[1] = "Command '{cmd}' is not in the allowed commands list"

\* C19: the allowlist test is an exact, case-sensitive match of the basename
\* of the command word: a single invocation passes it if and only if the
\* last path component of its command word is in ALLOWED_COMMANDS, so any
\* path that ends in an allowlisted name passes, and a name that differs
\* from an allowlisted one in case, or has it as a prefix or suffix, is
\* denied with that name in the reason.
C19_AllowlistMatchIsExact ==
    LET word == Words(Strip(command_string))[1] IN
    pc = "done" /\ SingleInvocation(command_string) =>
        /\ ~DeniedByAllowlist <=> LastComponent(word) \in ALLOWED_COMMANDS
        /\ EndsWith(word, <<"/", "ls">>) => result = Allow
        /\ LastComponent(word)
               \in { <<"LS">>, <<"ls", "x">>, <<"x", "ls">>, <<"ls", ".">> }
           => /\ DeniedByAllowlist
              /\ result.reason[2] = LastComponent(word)

\* /LS with an argument: denied for LS
C19_Witness ==
    /\ pc = "done"
    /\ Words(command_string) = << <<"/", "LS">>, <<"x">> >>
    /\ DeniedByAllowlist
    /\ result.reason[2] = <<"LS">>

\* the groups of a list of tokens: the runs of tokens between its operator
\* tokens; current is the group being collected
RECURSIVE GroupsFrom(_, _)
GroupsFrom(tokens, current) ==
    IF tokens = <<>> THEN << current >>
    ELSE IF Head(tokens) \in ShellOperators
    THEN << current >> \o GroupsFrom(Tail(tokens), <<>>)
    ELSE GroupsFrom(Tail(tokens), Append(current, Head(tokens)))

\* for each group that holds an eligible word (no flag, no NAME=value, no
\* keyword), the basename of its first eligible word
RECURSIVE GroupCommands(_)
GroupCommands(groups) ==
    IF groups = <<>> THEN <<>>
    ELSE LET eligible == SelectSeq(Head(groups), IsCommandWord) IN
         (IF eligible = <<>> THEN <<>> ELSE << Basename(eligible[1]) >>)
             \o GroupCommands(Tail(groups))

\* C20: the extractor starts in expect-command; flags, words with a "=" after
\* a first character that is no "=", and keywords are skipped; the first
\* other word in expect-command becomes a command name; later words are
\* ignored until an operator token (|, ||, &&, &) resets the state.  So for a
\* string without ";" the extracted commands are, in order, one name for
\* each operator-delimited group of tokens that holds an eligible word (the
\* basename of the group's first eligible word), and no flag or assignment
\* is a command name.
C20_OneCommandPerGroup ==
    LET tokens == Words(Strip(command_string))
        groups == GroupsFrom(tokens, <<>>)
        commands == _extract_commands(command_string)
    IN  /\ pc = "done"
        /\ \A i \in 1..Len(command_string) : command_string[i] # ";"
        /\ shlex_split(Strip(command_string)).ok
        => /\ commands = GroupCommands(groups)
           /\ Len(commands) =
                 Cardinality({ g \in 1..Len(groups) :
                                 \E i \in 1..Len(groups[g]) :
                                     IsCommandWord(groups[g][i]) })
           /\ \A k \in 1..Len(commands) :
                 \E i \in 1..Len(tokens) :
                     /\ IsCommandWord(tokens[i])
                     /\ commands[k] = Basename(tokens[i])

\* if ls | rm: the keyword is skipped, ls and rm are the commands
C20_Witness ==
    /\ pc = "done"
    /\ Words(command_string) = << <<"if">>, <<"ls">>, <<"|">>, <<"rm">> >>
    /\ _extract_commands(command_string) = << <<"ls">>, <<"rm">> >>
    /\ Denied

\* no segment of s holds a command word: s is empty, whitespace only,
\* separators only, or its words are all flags, keywords and assignments
NoCommandWord(s) ==
    \A k \in 1..Len(Segments(s)) : CommandWords(Segments(s)[k]) = <<>>

\* C21: a string from which no command name is extracted is denied: the
\* empty string, a whitespace-only string, a string of separators only, and
\* a string of flags, keywords and assignments only.
C21_NoCommandDenied ==
    /\ pc = "done" /\ _extract_commands(command_string) = <<>> => Denied
    /\ pc = "done" /\ NoCommandWord(command_string) => Denied

\* a flag and a keyword, nothing else: denied
C21_Witness ==
    /\ pc = "done"
    /\ Words(command_string) = << <<"-", "x">>, <<"if">> >>
    /\ NoCommandWord(command_string)
    /\ result = Deny(<<"Could not parse command for security validation">>)

\* the sessions of the run that have returned
SessionsRun == Len(agent.sessions)

\* C22: given an integer max_iterations, run_autonomous_agent runs at most
\* max_iterations sessions; only None means unlimited.
C22_AtMostMaxIterationsSessions ==
    agent.pc # "none" /\ agent.max_iterations # None =>
        SessionsRun <= agent.max_iterations[1]

\* C23: the initializer prompt is used only for session 1 of a run that
\* found no feature_list.json at its start, so at most once; every other
\* session, the retry after a failed first session included, uses the coding
\* prompt.
C23_InitializerOnlyFirstFreshSession ==
    agent.pc # "none" =>
        \A i \in 1..Len(agent.sessions) :
            /\ agent.sessions[i].prompt = "initializer_prompt" =>
                  i = 1 /\ ~agent.feature_file_existed
            /\ i # 1 \/ agent.feature_file_existed =>
                  agent.sessions[i].prompt = "coding_prompt"

\* a fresh start whose first session ended in error: the second session has
\* the coding prompt
C23_Witness ==
    /\ agent.pc = "session"
    /\ ~agent.feature_file_existed
    /\ Len(agent.sessions) = 2
    /\ agent.sessions[1].prompt = "initializer_prompt"
    /\ agent.sessions[1].status = "error"
    /\ agent.sessions[2].prompt = "coding_prompt"

\* the session ended complete with at least one feature and all passing
SessionFinishedProject(session) ==
    /\ session.status = "complete"
    /\ session.features[2] > 0
    /\ session.features[1] >= session.features[2]

\* C24: with max_iterations None the loop ends only after a session that
\* returned complete with at least one feature and all features passing;
\* after any other session (error, max_turns, complete with features
\* remaining) the run is back at the top of the loop and starts another
\* session, however many have failed.
C24_UnlimitedRunsUntilComplete ==
    LET sessions == agent.sessions IN
    agent.pc # "none" /\ agent.max_iterations = None =>
        /\ agent.pc = "returned" =>
              sessions # <<>> /\ SessionFinishedProject(sessions[Len(sessions)])
        /\ agent.pc # "session" /\ sessions # <<>>
              /\ ~SessionFinishedProject(sessions[Len(sessions)])
           => agent.pc = "loop"
        /\ agent.pc = "loop" /\ Len(sessions) < MaxSessions =>
              ENABLED AgentStartSession

\* after an error and a complete session with a feature remaining, a third
\* session completed the project and the run ended
C24_Witness ==
    /\ agent.pc = "returned"
    /\ agent.max_iterations = None
    /\ Len(agent.sessions) = 3
    /\ agent.sessions[1].status = "error"
    /\ agent.sessions[2].status = "complete"
    /\ agent.sessions[2].features = <<1, 2>>
    /\ SessionFinishedProject(agent.sessions[3])

\* the positions of backlog.events that hold an event of this kind
EventsOfKind(kind) ==
    { i \in 1..Len(backlog.events) : backlog.events[i][1] = kind }

C26_AtMostMaxPbisCompleted ==
    backlog.pc # "none" /\ backlog.max_pbis # None =>
        /\ backlog.pbis_completed <= backlog.max_pbis[1]
        /\ backlog.events # <<>>
              /\ backlog.events[Len(backlog.events)][1] = "mark_done"
              /\ backlog.pbis_completed >= backlog.max_pbis[1]
           => backlog.pc = "returned"
        /\ backlog.events # <<>>
              /\ backlog.events[Len(backlog.events)] = <<"query", {}>>
           => backlog.pc = "returned"

\* C27: with max_pbis None the run goes on until the backlog is empty and
\* then stops: once a query has returned no item, the run has returned.
C27_StopsWhenBacklogEmpty ==
    backlog.pc # "none" /\ backlog.max_pbis = None =>
        ( <<"query", {}>> \in { backlog.events[i] : i \in EventsOfKind("query") }
            => backlog.pc = "returned" )

\* the place of an agent in the fixed order
AgentOrder(a) == CHOOSE i \in 1..Len(agents) : agents[i] = a

\* the place of a call among the calls made for one agent
CallOrder(call) ==
    CASE call = "prompt" -> 1 [] call = "comment" -> 2 [] call = "mark" -> 3

\* the positions of workflow.log that hold this call for this agent
CallsOf(call, a) ==
    { i \in 1..Len(workflow.log) : workflow.log[i] = <<call, a>> }

\* C28: the agents are processed in the order architect, engineer, tester,
\* code_review, security, devops; an agent listed in completedAgents is
\* skipped (no prompt, no comment, no mark); every other agent is marked
\* complete once, directly after its comment; True is returned only when
\* all six agents are complete.
C28_AgentsInOrderOnce ==
    LET log == workflow.log IN
    workflow.pc # "none" =>
        /\ \A i \in 1..Len(log) - 1 :
              \/ AgentOrder(log[i][2]) < AgentOrder(log[i + 1][2])
              \/ /\ log[i][2] = log[i + 1][2]
                 /\ CallOrder(log[i][1]) < CallOrder(log[i + 1][1])
        /\ \A i \in 1..Len(log) : log[i][2] \notin workflow.completed_agents
        /\ \A i \in 1..Len(log) :
              log[i][1] = "mark" =>
                  /\ i > 1 /\ log[i - 1] = <<"comment", log[i][2]>>
                  /\ CallsOf("mark", log[i][2]) = {i}
        /\ workflow.returned # <<>> =>
              /\ workflow.returned = <<TRUE>>
              /\ \A i \in 1..Len(agents) :
                    \/ agents[i] \in workflow.completed_agents
                    \/ Cardinality(CallsOf("mark", agents[i])) = 1

\* a resumed workflow has returned: two agents were skipped, four were run
C28_Witness ==
    /\ workflow.pc = "returned"
    /\ workflow.completed_agents = {"engineer", "security"}
    /\ Len(workflow.log) = 12
    /\ workflow.log[1] = <<"prompt", "architect">>
    /\ workflow.log[4] = <<"prompt", "tester">>

\* this step is the operation op, given the name
Did(op, name) ==
    /\ mcp.pc = "ready"
    /\ mcp'.ops = mcp.ops + 1
    /\ mcp'.last[1] = op
    /\ mcp'.last[2] = name

\* C29: MCPServer.call_tool on a server that was never started or has been
\* stopped raises RuntimeError, writes no request and leaves request_id as
\* it was; MCPManager.call_tool on a name that is not registered raises
\* ValueError and touches no server; stop on a server that is not running
\* changes nothing, and after stop the server's process is None.
C29_CallsOnServersNotRunning ==
    [][\A name \in ServerNames :
          /\ Did("MCPServer.call_tool", name)
                /\ mcp.servers[name].process = None
             => /\ mcp'.last[3] = "RuntimeError"
                /\ mcp'.servers = mcp.servers
          /\ Did("MCPManager.call_tool", name)
                /\ name \notin DOMAIN mcp.servers
             => /\ mcp'.last[3] = "ValueError"
                /\ mcp'.servers = mcp.servers
          /\ Did("stop", name)
             => /\ mcp'.servers[name].process = None
                /\ mcp.servers[name].process = None
                      => mcp'.servers = mcp.servers]_vars

\* a server that was started, answered one call and was stopped is called
\* again: RuntimeError, request_id still 1 and one request written
C29_Witness ==
    /\ mcp.pc = "ready"
    /\ mcp.last = <<"MCPServer.call_tool", "puppeteer", "RuntimeError">>
    /\ "puppeteer" \in DOMAIN mcp.servers
    /\ mcp.servers["puppeteer"].process = None
    /\ mcp.servers["puppeteer"].request_id = 1
    /\ mcp.servers["puppeteer"].written = 1
    /\ mcp.ops = 5

=============================================================================
